---- MODULE Spec2Model ----
(***************************************************************************)
(* Discord Rank Bot: the temporary_roles store (role_manager.py), the      *)
(* reconciliation pass cleanup_expired_roles, and the command handlers of  *)
(* bot.py that call them.  Every await of a handler is an interleaving     *)
(* point; the synchronous code between two awaits is one step.             *)
(*                                                                         *)
(* Time is counted in hours.  NOW() and datetime.utcnow() read the same    *)
(* clock, which is sampled once per duration.                              *)
(***************************************************************************)
EXTENDS Integers, Sequences, FiniteSets, TLC

\* ------------------------------------------------------------------ bounds

\* The clock advances at most MaxTicks times
MaxTicks == 1
\* The rank commands that reach the store are at most MaxId
MaxId == 2
\* The handlers (commands, the periodic pass) in flight at a time are at most
\* MaxConcurrent
MaxConcurrent == 2
\* The guilds, members and roles that disappear are at most MaxGone
MaxGone == 1
MaxOpen == 3

\* ----------------------------------------------------------- configuration

\* bot.py:156  duration = 48
duration == 48

\* config.py:58 / config.py:64: the deployment's TEMPORARY_ROLE_ID and
\* REQUIRED_ROLE_ID
temporary_role_id == 99
required_role_id == 50

ROLE1_OPTIONS == <<"Stage 2", "Stage 3">>
ROLE2_OPTIONS == <<"High", "Mid", "Low">>
ROLE3_OPTIONS == <<"Strong", "Stable", "Weak">>

\* config.py:36-50.  An id of 0 is the fallback of an unset variable.
role_mappings ==
    [n \in {"Stage 2", "Stage 3", "High", "Mid", "Low", "Strong", "Stable", "Weak"} |->
        CASE n = "Stage 2" -> 21
          [] n = "Stage 3" -> 0
          [] n = "High"    -> 31
          [] n = "Mid"     -> 32
          [] n = "Low"     -> 33
          [] n = "Strong"  -> 41
          [] n = "Stable"  -> 42
          [] n = "Weak"    -> 43]

\* config.py:69-72.  0 stands for None (both are falsy in all([...])).
get_role_id(role_name) ==
    LET role_id == IF role_name \in DOMAIN role_mappings
                   THEN role_mappings[role_name] ELSE 0
    IN  IF role_id > 0 THEN role_id ELSE 0

\* config.py:74-76
get_temporary_role_id == IF temporary_role_id > 0 THEN temporary_role_id ELSE 0

\* config.py:78-80
get_required_role_id == IF required_role_id > 0 THEN required_role_id ELSE 0

SeqToSet(s) == {s[i] : i \in 1..Len(s)}

\* config.py:105-111
get_all_role_options ==
    [role1 |-> SeqToSet(ROLE1_OPTIONS),
     role2 |-> SeqToSet(ROLE2_OPTIONS),
     role3 |-> SeqToSet(ROLE3_OPTIONS)]

\* ------------------------------------------------------------ the universe

Users == {1, 2}
Guilds == {10, 20}
\* Members with guild_permissions.administrator
Admins == {1}
\* The option strings the rank command is tried with
Role1Inputs == {"Stage 2", "Stage 3", "Stage 9"}
Role2Inputs == {"High"}
Role3Inputs == {"Strong"}

Callers == {"a", "b"}
Passes == {"task", "cmd"}

VARIABLES
    \* the store (PostgreSQL)
    rows,            \* table temporary_roles
    next_id,         \* the sequence behind id SERIAL
    \* the clock
    now,
    \* the chat platform, as the bot's cache sees it
    bot_guilds,      \* guilds bot.get_guild finds
    guild_members,   \* <<guild, user>>: guild.get_member finds the user
    guild_roles,     \* <<guild, role>>: guild.get_role finds the role
    member_roles,    \* <<guild, user, role>>: role in member.roles
    \* rank_command, one per concurrent interaction
    rank_pc, rank_args, expiry_time, rank_reply,
    \* cleanup_expired_roles, one per caller (the periodic task, /cleanup)
    pass_pc, expired_roles, idx, roles_to_delete, roles_processed, outcomes,
    pass_result, cleanup_reply,
    \* status_command
    status_pc, status_args, temp_roles, status_reply,
    \* the connections of RoleManager's operations
    operation,       \* the operation in flight
    conn_pc,         \* where it stands
    connections,     \* connections open on the server
    attempts,        \* asyncpg.connect calls of the current _get_connection
    conn_result,     \* how the operation ended
    \* the start of the bot
    ready,           \* wait_until_ready() returns
    loop_pc          \* role_cleanup_task: not started, before its loop, looping

storeVars == <<rows, next_id>>
discordVars == <<bot_guilds, guild_members, guild_roles, member_roles>>
rankVars == <<rank_pc, rank_args, expiry_time, rank_reply>>
passVars == <<pass_pc, expired_roles, idx, roles_to_delete, roles_processed,
              outcomes, pass_result, cleanup_reply>>
statusVars == <<status_pc, status_args, temp_roles, status_reply>>
connVars == <<operation, conn_pc, connections, attempts, conn_result>>
lifeVars == <<ready, loop_pc>>
vars == <<storeVars, now, discordVars, rankVars, passVars, statusVars, connVars, lifeVars>>

\* ---------------------------------------------------------------- the store

Triple(r) == <<r.user_id, r.guild_id, r.role_id>>

RowsOf(rs, user_id, guild_id, role_id) ==
    {r \in rs : Triple(r) = <<user_id, guild_id, role_id>>}

\* The statement without its conflict clause, on a table without the UNIQUE
\* constraint: a plain INSERT
UpsertWithoutConflictClause(rs, new_id, user_id, guild_id, role_id, expiry) ==
    rs \cup {[id |-> new_id, user_id |-> user_id, guild_id |-> guild_id,
              role_id |-> role_id, expiry_time |-> expiry]}

\* The statement with ON CONFLICT ... DO NOTHING
UpsertDoNothing(rs, new_id, user_id, guild_id, role_id, expiry) ==
    IF RowsOf(rs, user_id, guild_id, role_id) # {}
    THEN rs
    ELSE rs \cup {[id |-> new_id, user_id |-> user_id, guild_id |-> guild_id,
                   role_id |-> role_id, expiry_time |-> expiry]}

\* The statement with DO UPDATE SET expiry_time = GREATEST(expiry_time, $4)
UpsertGreatest(rs, new_id, user_id, guild_id, role_id, expiry) ==
    IF RowsOf(rs, user_id, guild_id, role_id) # {}
    THEN {IF Triple(r) = <<user_id, guild_id, role_id>> /\ r.expiry_time < expiry
          THEN [r EXCEPT !.expiry_time = expiry]
          ELSE r : r \in rs}
    ELSE rs \cup {[id |-> new_id, user_id |-> user_id, guild_id |-> guild_id,
                   role_id |-> role_id, expiry_time |-> expiry]}

\* The statement with DO UPDATE SET id = DEFAULT, expiry_time = $4
UpsertRenumber(rs, new_id, user_id, guild_id, role_id, expiry) ==
    IF RowsOf(rs, user_id, guild_id, role_id) # {}
    THEN {IF Triple(r) = <<user_id, guild_id, role_id>>
          THEN [r EXCEPT !.expiry_time = expiry, !.id = new_id]
          ELSE r : r \in rs}
    ELSE rs \cup {[id |-> new_id, user_id |-> user_id, guild_id |-> guild_id,
                   role_id |-> role_id, expiry_time |-> expiry]}

\* The statement as a DELETE of the old row followed by a plain INSERT
UpsertReplace(rs, new_id, user_id, guild_id, role_id, expiry) ==
    (rs \ RowsOf(rs, user_id, guild_id, role_id))
    \cup {[id |-> new_id, user_id |-> user_id, guild_id |-> guild_id,
            role_id |-> role_id, expiry_time |-> expiry]}

\* role_manager.py:139-147: INSERT ... ON CONFLICT (user_id, guild_id, role_id)
\* DO UPDATE SET expiry_time = $4, assigned_at = NOW().  The table's UNIQUE
\* constraint (role_manager.py:105) is what the conflict clause names.  The
\* column assigned_at, which no code reads, is left out of the rows.
Upsert(rs, new_id, user_id, guild_id, role_id, expiry) ==
    IF RowsOf(rs, user_id, guild_id, role_id) # {}
    THEN {IF Triple(r) = <<user_id, guild_id, role_id>>
          THEN [r EXCEPT !.expiry_time = expiry]
          ELSE r : r \in rs}
    ELSE rs \cup {[id |-> new_id, user_id |-> user_id, guild_id |-> guild_id,
                   role_id |-> role_id, expiry_time |-> expiry]}

\* The query with WHERE expiry_time < NOW()
ExpiredRowsStrict(rs, at) == {r \in rs : r.expiry_time < at}

\* role_manager.py:162-164: SELECT * FROM temporary_roles WHERE expiry_time <= NOW()
ExpiredRows(rs, at) == {r \in rs : r.expiry_time <= at}

\* The statement with WHERE id = $1 and the lowest collected id for $1
DeleteFirstId(rs, ids) ==
    {r \in rs : ~(r.id \in ids /\ \A i \in ids : r.id <= i)}

\* A statement that removes nothing unless every id given is in the table
DeleteIdsAllPresent(rs, ids) ==
    IF ids \subseteq {r.id : r \in rs} THEN {r \in rs : r.id \notin ids} ELSE rs

\* The statement with AND expiry_time <= NOW() added
DeleteIdsStillExpired(rs, ids) ==
    {r \in rs : ~(r.id \in ids /\ r.expiry_time <= now)}

\* role_manager.py:215-218: DELETE FROM temporary_roles WHERE id = ANY($1)
DeleteIds(rs, ids) == {r \in rs : r.id \notin ids}

\* The query with AND expiry_time > NOW() added
UserGuildRowsUnexpired(rs, user_id, guild_id) ==
    {r \in rs : r.user_id = user_id /\ r.guild_id = guild_id /\ r.expiry_time > now}

\* role_manager.py:232-235: SELECT * ... WHERE user_id = $1 AND guild_id = $2
UserGuildRows(rs, user_id, guild_id) ==
    {r \in rs : r.user_id = user_id /\ r.guild_id = guild_id}

\* role_manager.py:248-251: DELETE FROM temporary_roles WHERE user_id = $1 AND
\* guild_id = $2 AND role_id = $3
DeleteTriple(rs, user_id, guild_id, role_id) ==
    rs \ RowsOf(rs, user_id, guild_id, role_id)

\* Every order in which a query without ORDER BY may return the set S
Orders(S) ==
    {f \in [1..Cardinality(S) -> S] :
        \A i, j \in 1..Cardinality(S) : i # j => f[i] # f[j]}

\* The orders ORDER BY expiry_time allows
OrdersByExpiry(S) ==
    {f \in Orders(S) :
        \A i, j \in 1..Cardinality(S) :
            i < j => f[i].expiry_time <= f[j].expiry_time}

\* ----------------------------------------------------------------- Init

NoArgs == [user |-> 0, guild |-> 0, role1 |-> "", role2 |-> "", role3 |-> ""]
NoQuery == [user |-> 0, guild |-> 0]

\* The roles of guild 10; guild 20 has none of the configured roles
Guild10Roles == {21, 31, 41, temporary_role_id, required_role_id}

Init ==
    /\ rows = {}
    /\ next_id = 1
    /\ now = 0
    /\ bot_guilds = Guilds
    /\ guild_members = Guilds \X Users
    /\ guild_roles = {<<10, r>> : r \in Guild10Roles}
    /\ member_roles = {<<10, u, required_role_id>> : u \in Users}
    /\ rank_pc = [c \in Callers |-> "idle"]
    /\ rank_args = [c \in Callers |-> NoArgs]
    /\ expiry_time = [c \in Callers |-> 0]
    /\ rank_reply = [c \in Callers |-> "none"]
    /\ pass_pc = [p \in Passes |-> "idle"]
    /\ expired_roles = [p \in Passes |-> <<>>]
    /\ idx = [p \in Passes |-> 0]
    /\ roles_to_delete = [p \in Passes |-> <<>>]
    /\ roles_processed = [p \in Passes |-> 0]
    /\ outcomes = [p \in Passes |-> <<>>]
    /\ pass_result = [p \in Passes |-> "none"]
    /\ cleanup_reply = [kind |-> "none", count |-> 0]
    /\ status_pc = "idle"
    /\ status_args = NoQuery
    /\ temp_roles = <<>>
    /\ status_reply = "none"
    /\ operation = "none"
    /\ conn_pc = "idle"
    /\ connections = 0
    /\ attempts = 0
    /\ conn_result = "none"
    /\ ready = TRUE
    /\ loop_pc = "looping"

\* ---------------------------------------------------- clock and database

\* The clock advances by one duration, at most n times
TickUpTo(n) ==
    /\ now + duration <= n * duration
    /\ now' = now + duration
    /\ UNCHANGED <<storeVars, discordVars, rankVars, passVars, statusVars, connVars, lifeVars>>

Tick == TickUpTo(MaxTicks)

\* How a call on the store ends: the statement runs, the connection cannot be
\* had (_ensure_table_exists or _get_connection raises, role_manager.py:51-75,
\* 93-125), or the statement itself fails
StoreResults == {"ok", "no_connection", "failed"}

\* ------------------------------------------------------- the chat platform

\* How many guilds, members and roles have disappeared
Gone ==
    Cardinality(Guilds \ bot_guilds)
    + Cardinality((Guilds \X Users) \ guild_members)
    + Cardinality({<<10, r>> : r \in Guild10Roles} \ guild_roles)

\* The bot is removed from guild g: bot.get_guild(g) returns None from now on
GuildRemove(g) ==
    /\ Gone < MaxGone
    /\ g \in bot_guilds
    /\ bot_guilds' = bot_guilds \ {g}
    /\ UNCHANGED <<guild_members, guild_roles, member_roles>>
    /\ UNCHANGED <<storeVars, now, rankVars, passVars, statusVars, connVars, lifeVars>>

\* User u leaves guild g: guild.get_member(u) returns None, the roles go
MemberLeave(g, u) ==
    /\ Gone < MaxGone
    /\ <<g, u>> \in guild_members
    /\ guild_members' = guild_members \ {<<g, u>>}
    /\ member_roles' = {m \in member_roles : ~(m[1] = g /\ m[2] = u)}
    /\ UNCHANGED <<bot_guilds, guild_roles>>
    /\ UNCHANGED <<storeVars, now, rankVars, passVars, statusVars, connVars, lifeVars>>

\* Role r of guild g is deleted: guild.get_role(r) returns None
RoleDelete(g, r) ==
    /\ Gone < MaxGone
    /\ <<g, r>> \in guild_roles
    /\ guild_roles' = guild_roles \ {<<g, r>>}
    /\ member_roles' = {m \in member_roles : ~(m[1] = g /\ m[3] = r)}
    /\ UNCHANGED <<bot_guilds, guild_members>>
    /\ UNCHANGED <<storeVars, now, rankVars, passVars, statusVars, connVars, lifeVars>>

\* Somebody takes role r away from member u by hand
RoleTakenAway(g, u, r) ==
    /\ <<g, u, r>> \in member_roles
    /\ member_roles' = member_roles \ {<<g, u, r>>}
    /\ UNCHANGED <<bot_guilds, guild_members, guild_roles>>
    /\ UNCHANGED <<storeVars, now, rankVars, passVars, statusVars, connVars, lifeVars>>

\* --------------------------------------------------------------- /rank

\* bot.py:91-97
has_required_role(g, u) ==
    IF get_required_role_id = 0
    THEN TRUE
    ELSE <<g, u, get_required_role_id>> \in member_roles

\* guild.get_role(role_id) if role_id else None (bot.py:180-183)
get_role(g, role_id) == role_id # 0 /\ <<g, role_id>> \in guild_roles

\* The four roles the command adds (bot.py:159-162, 207)
RolesToAdd(args) ==
    {get_role_id(args.role1), get_role_id(args.role2), get_role_id(args.role3),
     get_temporary_role_id}

\* The checks without the lookup of the four roles in the guild
RejectionWithoutRoleLookup(u, g, in_guild, role1, role2, role3) ==
    IF ~in_guild THEN "server_only"
    ELSE IF ~has_required_role(g, u) THEN "no_permission"
    ELSE IF role1 \notin get_all_role_options.role1 THEN "invalid_role1"
    ELSE IF role2 \notin get_all_role_options.role2 THEN "invalid_role2"
    ELSE IF role3 \notin get_all_role_options.role3 THEN "invalid_role3"
    ELSE IF 0 \in {get_role_id(role1), get_role_id(role2), get_role_id(role3),
                   get_temporary_role_id}
         THEN "not_configured"
    ELSE ""

\* bot.py:115-196: the answer of a rejected command, "" when it is accepted
Rejection(u, g, in_guild, role1, role2, role3) ==
    IF ~in_guild THEN "server_only"
    ELSE IF ~has_required_role(g, u) THEN "no_permission"
    ELSE IF role1 \notin get_all_role_options.role1 THEN "invalid_role1"
    ELSE IF role2 \notin get_all_role_options.role2 THEN "invalid_role2"
    ELSE IF role3 \notin get_all_role_options.role3 THEN "invalid_role3"
    ELSE IF 0 \in {get_role_id(role1), get_role_id(role2), get_role_id(role3),
                   get_temporary_role_id}
         THEN "not_configured"
    ELSE IF \E r \in {get_role_id(role1), get_role_id(role2), get_role_id(role3),
                      get_temporary_role_id} : ~get_role(g, r)
         THEN "roles_not_found"
    ELSE ""

\* Commands past validation that have not yet written their row
InFlight == {c \in Callers : rank_pc[c] \in {"add_roles", "schedule"}}

\* The handlers in flight
ActiveHandlers ==
    Cardinality({c \in Callers : rank_pc[c] # "idle"})
    + Cardinality({p \in Passes : pass_pc[p] # "idle"})
    + (IF status_pc # "idle" THEN 1 ELSE 0)

\* bot.py:105-207: defer, then the checks up to the await of add_roles.  Of two
\* interactions in flight the one that came first is called "a".  A handler
\* starts while fewer than limit handlers are in flight.
RankInvoke(limit, c, u, g, in_guild, role1, role2, role3) ==
    /\ rank_pc[c] = "idle"
    /\ c = "b" => rank_pc["a"] # "idle"
    /\ ActiveHandlers < limit
    /\ in_guild => (g \in bot_guilds /\ <<g, u>> \in guild_members)
    /\ LET why == Rejection(u, g, in_guild, role1, role2, role3)
       IN  IF why # ""
           THEN /\ rank_pc' = [rank_pc EXCEPT ![c] = "done"]
                /\ rank_reply' = [rank_reply EXCEPT ![c] = why]
                /\ UNCHANGED rank_args
           ELSE /\ next_id + Cardinality(InFlight) <= MaxId
                /\ rank_pc' = [rank_pc EXCEPT ![c] = "add_roles"]
                /\ rank_args' = [rank_args EXCEPT ![c] =
                       [user |-> u, guild |-> g, role1 |-> role1,
                        role2 |-> role2, role3 |-> role3]]
                /\ UNCHANGED rank_reply
    /\ UNCHANGED <<expiry_time, storeVars, now, discordVars, passVars, statusVars, connVars, lifeVars>>

\* bot.py:210-213 and 264-274: await member.add_roles(...), then the expiry
RankAddRoles(c) ==
    /\ rank_pc[c] = "add_roles"
    /\ LET a == rank_args[c] IN
       \/ /\ <<a.guild, a.user>> \in guild_members
          /\ \A r \in RolesToAdd(a) : <<a.guild, r>> \in guild_roles
          /\ member_roles' = member_roles \cup
                 {<<a.guild, a.user, r>> : r \in RolesToAdd(a)}
          /\ expiry_time' = [expiry_time EXCEPT ![c] = now + duration]
          /\ rank_pc' = [rank_pc EXCEPT ![c] = "schedule"]
          /\ UNCHANGED rank_reply
       \/ /\ \E why \in {"forbidden", "error"} :
                rank_reply' = [rank_reply EXCEPT ![c] = why]
          /\ rank_pc' = [rank_pc EXCEPT ![c] = "done"]
          /\ UNCHANGED <<member_roles, expiry_time>>
    /\ UNCHANGED <<rank_args, bot_guilds, guild_members, guild_roles>>
    /\ UNCHANGED <<storeVars, now, passVars, statusVars, connVars, lifeVars>>

\* The command scheduling the removal of its first category role
RankScheduleCategoryRole(c, result) ==
    /\ rank_pc[c] = "schedule"
    /\ IF result = "ok"
       THEN /\ rows' = Upsert(rows, next_id, rank_args[c].user, rank_args[c].guild,
                              get_role_id(rank_args[c].role1), expiry_time[c])
            /\ next_id' = next_id + 1
            /\ rank_reply' = [rank_reply EXCEPT ![c] = "success"]
       ELSE /\ rank_reply' = [rank_reply EXCEPT ![c] = "error"]
            /\ UNCHANGED <<rows, next_id>>
    /\ rank_pc' = [rank_pc EXCEPT ![c] = "done"]
    /\ UNCHANGED <<rank_args, expiry_time>>
    /\ UNCHANGED <<now, discordVars, passVars, statusVars, connVars, lifeVars>>

\* schedule_role_removal answering its failure with a log line instead of
\* raise, as get_user_temp_roles does
RankScheduleSwallow(c, result) ==
    /\ rank_pc[c] = "schedule"
    /\ IF result = "ok"
       THEN /\ rows' = Upsert(rows, next_id, rank_args[c].user, rank_args[c].guild,
                              get_temporary_role_id, expiry_time[c])
            /\ next_id' = next_id + 1
       ELSE UNCHANGED <<rows, next_id>>
    /\ rank_reply' = [rank_reply EXCEPT ![c] = "success"]
    /\ rank_pc' = [rank_pc EXCEPT ![c] = "done"]
    /\ UNCHANGED <<rank_args, expiry_time>>
    /\ UNCHANGED <<now, discordVars, passVars, statusVars, connVars, lifeVars>>

\* bot.py:216-222: await schedule_role_removal (role_manager.py:127-153),
\* then the success embed (bot.py:224-262); whatever the call raises is
\* answered at bot.py:269-274
RankScheduleWith(c, result) ==
    /\ rank_pc[c] = "schedule"
    /\ IF result = "ok"
       THEN /\ rows' = Upsert(rows, next_id, rank_args[c].user, rank_args[c].guild,
                              get_temporary_role_id, expiry_time[c])
            /\ next_id' = next_id + 1
            /\ rank_reply' = [rank_reply EXCEPT ![c] = "success"]
       ELSE /\ rank_reply' = [rank_reply EXCEPT ![c] = "error"]
            /\ UNCHANGED <<rows, next_id>>
    /\ rank_pc' = [rank_pc EXCEPT ![c] = "done"]
    /\ UNCHANGED <<rank_args, expiry_time>>
    /\ UNCHANGED <<now, discordVars, passVars, statusVars, connVars, lifeVars>>

RankSchedule(c) == \E result \in StoreResults : RankScheduleWith(c, result)

\* The handler has returned
RankReturn(c) ==
    /\ rank_pc[c] = "done"
    /\ rank_pc' = [rank_pc EXCEPT ![c] = "idle"]
    /\ rank_args' = [rank_args EXCEPT ![c] = NoArgs]
    /\ expiry_time' = [expiry_time EXCEPT ![c] = 0]
    /\ rank_reply' = [rank_reply EXCEPT ![c] = "none"]
    /\ UNCHANGED <<storeVars, now, discordVars, passVars, statusVars, connVars, lifeVars>>

\* ------------------------------------------- cleanup_expired_roles (a pass)

\* The locals of a pass that is not running
ResetPass(p) ==
    /\ expired_roles' = [expired_roles EXCEPT ![p] = <<>>]
    /\ idx' = [idx EXCEPT ![p] = 0]
    /\ roles_to_delete' = [roles_to_delete EXCEPT ![p] = <<>>]
    /\ roles_processed' = [roles_processed EXCEPT ![p] = 0]
    /\ outcomes' = [outcomes EXCEPT ![p] = <<>>]
    /\ pass_result' = [pass_result EXCEPT ![p] = "none"]

\* bot.py:78-82: an iteration of the tasks.loop starts a pass once before_loop
\* has returned; the loop awaits the pass before it sleeps again
TaskTick(limit) ==
    /\ loop_pc = "looping"
    /\ pass_pc["task"] = "idle"
    /\ ActiveHandlers < limit
    /\ pass_pc' = [pass_pc EXCEPT !["task"] = "fetch"]
    /\ UNCHANGED <<expired_roles, idx, roles_to_delete, roles_processed,
                   outcomes, pass_result, cleanup_reply>>
    /\ UNCHANGED <<storeVars, now, discordVars, rankVars, statusVars, connVars, lifeVars>>

\* /cleanup without the administrator check
CleanupInvokeUnchecked(limit, u, g, in_guild) ==
    /\ pass_pc["cmd"] = "idle"
    /\ ActiveHandlers < limit
    /\ in_guild => (g \in bot_guilds /\ <<g, u>> \in guild_members)
    /\ pass_pc' = [pass_pc EXCEPT !["cmd"] = "fetch"]
    /\ UNCHANGED cleanup_reply
    /\ UNCHANGED <<expired_roles, idx, roles_to_delete, roles_processed,
                   outcomes, pass_result>>
    /\ UNCHANGED <<storeVars, now, discordVars, rankVars, statusVars, connVars, lifeVars>>

\* bot.py:359-373: /cleanup, the administrator check, defer
CleanupInvoke(limit, u, g, in_guild) ==
    /\ pass_pc["cmd"] = "idle"
    /\ ActiveHandlers < limit
    /\ in_guild => (g \in bot_guilds /\ <<g, u>> \in guild_members)
    /\ IF in_guild /\ u \in Admins
       THEN /\ pass_pc' = [pass_pc EXCEPT !["cmd"] = "fetch"]
            /\ UNCHANGED cleanup_reply
       ELSE /\ pass_pc' = [pass_pc EXCEPT !["cmd"] = "replied"]
            /\ cleanup_reply' = [kind |-> "not_admin", count |-> 0]
    /\ UNCHANGED <<expired_roles, idx, roles_to_delete, roles_processed,
                   outcomes, pass_result>>
    /\ UNCHANGED <<storeVars, now, discordVars, rankVars, statusVars, connVars, lifeVars>>

\* role_manager.py:157-171 (and 221-225 when the query fails)
PassFetchWith(p, result) ==
    /\ pass_pc[p] = "fetch"
    /\ IF result # "ok"
       THEN /\ pass_pc' = [pass_pc EXCEPT ![p] = "done"]
            /\ pass_result' = [pass_result EXCEPT ![p] = "raised"]
            /\ UNCHANGED <<expired_roles, idx>>
       ELSE IF ExpiredRows(rows, now) = {}
       THEN /\ pass_pc' = [pass_pc EXCEPT ![p] = "done"]
            /\ pass_result' = [pass_result EXCEPT ![p] = "returned"]
            /\ UNCHANGED <<expired_roles, idx>>
       ELSE /\ \E f \in Orders(ExpiredRows(rows, now)) :
                   expired_roles' = [expired_roles EXCEPT ![p] = f]
            /\ idx' = [idx EXCEPT ![p] = 1]
            /\ pass_pc' = [pass_pc EXCEPT ![p] = "loop"]
            /\ UNCHANGED pass_result
    /\ UNCHANGED <<roles_to_delete, roles_processed, outcomes, cleanup_reply>>
    /\ UNCHANGED <<storeVars, now, discordVars, rankVars, statusVars, connVars, lifeVars>>

PassFetch(p) == \E result \in StoreResults : PassFetchWith(p, result)

\* The lookups without the test `role in member.roles` of line 193
ResolveWithoutHeldTest(role_data) ==
    IF role_data.guild_id \notin bot_guilds THEN "no_guild"
    ELSE IF <<role_data.guild_id, role_data.user_id>> \notin guild_members
         THEN "no_member"
    ELSE IF <<role_data.guild_id, role_data.role_id>> \notin guild_roles
         THEN "no_role"
    ELSE "held"

\* role_manager.py:175-193, 204-205: the lookups of one iteration
Resolve(role_data) ==
    IF role_data.guild_id \notin bot_guilds THEN "no_guild"
    ELSE IF <<role_data.guild_id, role_data.user_id>> \notin guild_members
         THEN "no_member"
    ELSE IF <<role_data.guild_id, role_data.role_id>> \notin guild_roles
         THEN "no_role"
    ELSE IF <<role_data.guild_id, role_data.user_id, role_data.role_id>>
                \in member_roles
         THEN "held"
    ELSE "not_held"

\* The lookups with the three appends before continue left out
AfterLookupKeepMissing(ids, role_data, found) ==
    IF found \in {"no_guild", "no_member", "no_role"}
    THEN ids ELSE Append(ids, role_data.id)

\* role_manager.py:178, 184, 190, 207: what an iteration without a revoke call
\* leaves in roles_to_delete
AfterLookup(ids, role_data, found) == Append(ids, role_data.id)

\* The handler of discord.Forbidden ending in continue
AfterRevokeKeepForbidden(ids, role_data, result) ==
    IF result = "Forbidden" THEN ids ELSE Append(ids, role_data.id)

\* The id put in front of the ids collected so far
AfterRevokeInFront(ids, role_data, result) == <<role_data.id>> \o ids

\* role_manager.py:194-207: what an iteration leaves in roles_to_delete once
\* remove_roles has returned or raised
AfterRevoke(ids, role_data, result) == Append(ids, role_data.id)

\* roles_processed counting every grant the pass called remove_roles for
ProcessedEveryCall(n, result) == n + 1

\* role_manager.py:197: roles_processed after remove_roles
Processed(n, result) == IF result = "removed" THEN n + 1 ELSE n

\* The pc after the iteration on row i of p
NextIteration(p) == IF idx[p] + 1 > Len(expired_roles[p]) THEN "delete" ELSE "loop"

\* role_manager.py:173-193, 204-207: one iteration up to the await of
\* remove_roles
PassResolve(p) ==
    /\ pass_pc[p] = "loop"
    /\ LET role_data == expired_roles[p][idx[p]]
           found == Resolve(role_data)
       IN  IF found = "held"
           THEN /\ pass_pc' = [pass_pc EXCEPT ![p] = "revoking"]
                /\ UNCHANGED <<idx, roles_to_delete, outcomes>>
           ELSE /\ roles_to_delete' = [roles_to_delete EXCEPT ![p] =
                        AfterLookup(@, role_data, found)]
                /\ outcomes' = [outcomes EXCEPT ![p] = Append(@, found)]
                /\ idx' = [idx EXCEPT ![p] = @ + 1]
                /\ pass_pc' = [pass_pc EXCEPT ![p] = NextIteration(p)]
    /\ UNCHANGED <<expired_roles, roles_processed, pass_result, cleanup_reply>>
    /\ UNCHANGED <<storeVars, now, discordVars, rankVars, statusVars, connVars, lifeVars>>

\* The results of await member.remove_roles(...), role_manager.py:195-203
RevokeResults == {"removed", "Forbidden", "HTTPException", "Exception"}

\* role_manager.py:196-203: an HTTPException and any other exception are
\* both logged as an error of the grant
Logged(result) ==
    IF result \in {"HTTPException", "Exception"} THEN "error" ELSE result

\* role_manager.py:194-207: remove_roles returns or raises
PassRevokeWith(p, result) ==
    /\ pass_pc[p] = "revoking"
    /\ LET role_data == expired_roles[p][idx[p]] IN
          /\ IF result = "removed"
             THEN /\ role_data.guild_id \in bot_guilds
                  /\ <<role_data.guild_id, role_data.user_id>> \in guild_members
                  /\ <<role_data.guild_id, role_data.role_id>> \in guild_roles
                  /\ member_roles' = member_roles \
                        {<<role_data.guild_id, role_data.user_id, role_data.role_id>>}
             ELSE UNCHANGED member_roles
          /\ roles_processed' = [roles_processed EXCEPT ![p] = Processed(@, result)]
          /\ roles_to_delete' = [roles_to_delete EXCEPT ![p] =
                  AfterRevoke(@, role_data, result)]
          /\ outcomes' = [outcomes EXCEPT ![p] = Append(@, Logged(result))]
    /\ idx' = [idx EXCEPT ![p] = @ + 1]
    /\ pass_pc' = [pass_pc EXCEPT ![p] = NextIteration(p)]
    /\ UNCHANGED <<expired_roles, pass_result, cleanup_reply>>
    /\ UNCHANGED <<bot_guilds, guild_members, guild_roles>>
    /\ UNCHANGED <<storeVars, now, rankVars, statusVars, connVars, lifeVars>>

PassRevoke(p) == \E result \in RevokeResults : PassRevokeWith(p, result)

\* role_manager.py:213-225
PassDeleteWith(p, result) ==
    /\ pass_pc[p] = "delete"
    /\ IF roles_to_delete[p] = <<>>
       THEN /\ pass_result' = [pass_result EXCEPT ![p] = "returned"]
            /\ UNCHANGED rows
       ELSE IF result = "ok"
       THEN /\ rows' = DeleteIds(rows, SeqToSet(roles_to_delete[p]))
            /\ pass_result' = [pass_result EXCEPT ![p] = "returned"]
       ELSE /\ pass_result' = [pass_result EXCEPT ![p] = "raised"]
            /\ UNCHANGED rows
    /\ pass_pc' = [pass_pc EXCEPT ![p] = "done"]
    /\ UNCHANGED <<expired_roles, idx, roles_to_delete, roles_processed,
                   outcomes, cleanup_reply>>
    /\ UNCHANGED <<next_id, now, discordVars, rankVars, statusVars, connVars, lifeVars>>

PassDelete(p) == \E result \in {"ok", "failed"} : PassDeleteWith(p, result)

\* role_manager.py:166-168 and 213-219: what a pass that did not raise hands
\* to its caller. The only return statement is the bare one of line 168 and
\* the body ends after the log line of 219, so the caller gets None: the
\* value is written as a set, {} for None and {n} for a number n
ReturnValue(p) == {}

\* bot.py:81-84: the pass has returned or raised into role_cleanup_task, which
\* logs what was raised; the loop sleeps until its next iteration
\* The cancellation with the DELETE of the collected ids moved into finally
PassCancelDeleting(removed) ==
    /\ pass_pc["task"] = "revoking"
    /\ LET role_data == expired_roles["task"][idx["task"]] IN
          IF removed
          THEN /\ role_data.guild_id \in bot_guilds
               /\ <<role_data.guild_id, role_data.user_id>> \in guild_members
               /\ <<role_data.guild_id, role_data.role_id>> \in guild_roles
               /\ member_roles' = member_roles \ {<<role_data.guild_id,
                      role_data.user_id, role_data.role_id>>}
          ELSE UNCHANGED member_roles
    /\ rows' = DeleteIds(rows, SeqToSet(roles_to_delete["task"]))
    /\ pass_pc' = [pass_pc EXCEPT !["task"] = "cancelled"]
    /\ pass_result' = [pass_result EXCEPT !["task"] = "cancelled"]
    /\ UNCHANGED <<expired_roles, idx, roles_to_delete, roles_processed,
                   outcomes, cleanup_reply>>
    /\ UNCHANGED <<bot_guilds, guild_members, guild_roles>>
    /\ UNCHANGED <<next_id, now, rankVars, statusVars, connVars, lifeVars>>

\* main.py:69-70 and role_manager.py:195, 221-225: the process is interrupted
\* and asyncio.run cancels the loop's task while the pass awaits remove_roles,
\* the only await inside the loop.  CancelledError is not an Exception: the
\* handlers of 198-203, 209 and 221 let it through, finally closes the
\* connection and the DELETE of 215-218 is never reached.  The request may or
\* may not have reached the platform (removed)
PassCancel(removed) ==
    /\ pass_pc["task"] = "revoking"
    /\ LET role_data == expired_roles["task"][idx["task"]] IN
          IF removed
          THEN /\ role_data.guild_id \in bot_guilds
               /\ <<role_data.guild_id, role_data.user_id>> \in guild_members
               /\ <<role_data.guild_id, role_data.role_id>> \in guild_roles
               /\ member_roles' = member_roles \ {<<role_data.guild_id,
                      role_data.user_id, role_data.role_id>>}
          ELSE UNCHANGED member_roles
    /\ pass_pc' = [pass_pc EXCEPT !["task"] = "cancelled"]
    /\ pass_result' = [pass_result EXCEPT !["task"] = "cancelled"]
    /\ UNCHANGED <<expired_roles, idx, roles_to_delete, roles_processed,
                   outcomes, cleanup_reply>>
    /\ UNCHANGED <<bot_guilds, guild_members, guild_roles>>
    /\ UNCHANGED <<storeVars, now, rankVars, statusVars, connVars, lifeVars>>

\* bot.py:37-55: the bot is started again and setup_hook starts the loop; the
\* table and the platform are as the cancelled pass left them
TaskRestart ==
    /\ pass_pc["task"] = "cancelled"
    /\ pass_pc' = [pass_pc EXCEPT !["task"] = "idle"]
    /\ ResetPass("task")
    /\ UNCHANGED cleanup_reply
    /\ UNCHANGED <<storeVars, now, discordVars, rankVars, statusVars, connVars, lifeVars>>

\* role_cleanup_task without its try/except: a pass that raises ends the loop
TaskReturnUncaught ==
    /\ pass_pc["task"] = "done"
    /\ pass_pc' = [pass_pc EXCEPT !["task"] =
            IF pass_result["task"] = "raised" THEN "stopped" ELSE "idle"]
    /\ ResetPass("task")
    /\ UNCHANGED cleanup_reply
    /\ UNCHANGED <<storeVars, now, discordVars, rankVars, statusVars, connVars, lifeVars>>

TaskReturn ==
    /\ pass_pc["task"] = "done"
    /\ pass_pc' = [pass_pc EXCEPT !["task"] = "idle"]
    /\ ResetPass("task")
    /\ UNCHANGED cleanup_reply
    /\ UNCHANGED <<storeVars, now, discordVars, rankVars, statusVars, connVars, lifeVars>>

\* bot.py:372-375 and 389-394: the pass has returned or raised into
\* cleanup_command
CleanupAfterPass ==
    /\ pass_pc["cmd"] = "done"
    /\ IF pass_result["cmd"] = "raised"
       THEN /\ pass_pc' = [pass_pc EXCEPT !["cmd"] = "replied"]
            /\ cleanup_reply' = [kind |-> "error", count |-> 0]
       ELSE /\ pass_pc' = [pass_pc EXCEPT !["cmd"] = "count"]
            /\ UNCHANGED cleanup_reply
    /\ ResetPass("cmd")
    /\ UNCHANGED <<storeVars, now, discordVars, rankVars, statusVars, connVars, lifeVars>>

\* role_manager.py:262-273: SELECT COUNT(*); 0 when the query fails
get_scheduled_count(result) == IF result = "ok" THEN Cardinality(rows) ELSE 0

\* bot.py:375-384: await get_scheduled_count, then the embed; a connection
\* that cannot be had is raised to bot.py:389-394
CleanupCount ==
    /\ pass_pc["cmd"] = "count"
    /\ \E result \in StoreResults :
          IF result = "no_connection"
          THEN cleanup_reply' = [kind |-> "error", count |-> 0]
          ELSE cleanup_reply' = [kind |-> "complete",
                                 count |-> get_scheduled_count(result)]
    /\ pass_pc' = [pass_pc EXCEPT !["cmd"] = "replied"]
    /\ UNCHANGED <<expired_roles, idx, roles_to_delete, roles_processed,
                   outcomes, pass_result>>
    /\ UNCHANGED <<storeVars, now, discordVars, rankVars, statusVars, connVars, lifeVars>>

\* cleanup_command has returned
CleanupReturn ==
    /\ pass_pc["cmd"] = "replied"
    /\ pass_pc' = [pass_pc EXCEPT !["cmd"] = "idle"]
    /\ cleanup_reply' = [kind |-> "none", count |-> 0]
    /\ UNCHANGED <<expired_roles, idx, roles_to_delete, roles_processed,
                   outcomes, pass_result>>
    /\ UNCHANGED <<storeVars, now, discordVars, rankVars, statusVars, connVars, lifeVars>>

\* -------------------------------------------------------------- /status

\* bot.py:302-348: what the command answers for the rows it was given
StatusReply(result, at) ==
    IF result = <<>> THEN "no_temp_roles"
    ELSE LET hits == {i \in 1..Len(result) : result[i].role_id = get_temporary_role_id}
         IN  IF hits = {} THEN "no_active"
             ELSE LET temp_role_data ==
                          result[CHOOSE i \in hits : \A j \in hits : i <= j]
                  IN  IF temp_role_data.expiry_time - at > 0
                      THEN "remaining" ELSE "expired"

\* role_manager.py:227-241: what get_user_temp_roles may return
get_user_temp_roles(user_id, guild_id, result) ==
    IF result = "ok"
    THEN OrdersByExpiry(UserGuildRows(rows, user_id, guild_id))
    ELSE {<<>>}

\* bot.py:283-295
StatusInvoke(limit, u, g, in_guild) ==
    /\ status_pc = "idle"
    /\ ActiveHandlers < limit
    /\ in_guild => (g \in bot_guilds /\ <<g, u>> \in guild_members)
    /\ IF in_guild
       THEN /\ status_pc' = "query"
            /\ status_args' = [user |-> u, guild |-> g]
            /\ UNCHANGED status_reply
       ELSE /\ status_pc' = "done"
            /\ status_reply' = "server_only"
            /\ UNCHANGED status_args
    /\ UNCHANGED temp_roles
    /\ UNCHANGED <<storeVars, now, discordVars, rankVars, passVars, connVars, lifeVars>>

\* bot.py:297-350: await get_user_temp_roles, then the answer; a connection
\* that cannot be had is raised to bot.py:352-357
StatusQueryWith(result) ==
    /\ status_pc = "query"
    /\ IF result = "no_connection"
       THEN /\ status_reply' = "error"
            /\ UNCHANGED temp_roles
       ELSE \E found \in get_user_temp_roles(status_args.user,
                                             status_args.guild, result) :
               /\ temp_roles' = found
               /\ status_reply' = StatusReply(found, now)
    /\ status_pc' = "done"
    /\ UNCHANGED status_args
    /\ UNCHANGED <<storeVars, now, discordVars, rankVars, passVars, connVars, lifeVars>>

StatusQuery == \E result \in StoreResults : StatusQueryWith(result)

\* status_command has returned
StatusReturn ==
    /\ status_pc = "done"
    /\ status_pc' = "idle"
    /\ status_args' = NoQuery
    /\ temp_roles' = <<>>
    /\ status_reply' = "none"
    /\ UNCHANGED <<storeVars, now, discordVars, rankVars, passVars, connVars, lifeVars>>

\* -------------------------------------------- operations no handler calls

\* role_manager.py:243-260: remove_scheduled_role, called by a client of
\* RoleManager; it answers False when its statement fails and raises when the
\* connection cannot be had
RemoveScheduledRoleWith(user_id, guild_id, role_id, result) ==
    /\ rows' = IF result = "ok"
               THEN DeleteTriple(rows, user_id, guild_id, role_id)
               ELSE rows
    /\ UNCHANGED <<next_id, now, discordVars, rankVars, passVars, statusVars, connVars, lifeVars>>

RemoveScheduledRole(user_id, guild_id, role_id) ==
    \E result \in StoreResults :
        RemoveScheduledRoleWith(user_id, guild_id, role_id, result)

\* ------------------------------------------- connections of the operations

\* role_manager.py:93-298: the operations that open a connection
Operations ==
    {"schedule_role_removal", "cleanup_expired_roles", "get_user_temp_roles",
     "remove_scheduled_role", "get_scheduled_count", "get_all_scheduled_roles",
     "test_connection"}

\* role_manager.py:149-151, 221-223: the operations whose except clause ends
\* in raise; the others return [], 0 or False (238-239, 256-258, 269-271,
\* 282-284, 296-298)
Reraising == {"schedule_role_removal", "cleanup_expired_roles"}

\* An operation is called; all but test_connection begin with
\* _ensure_table_exists (129, 157, 229, 245, 264, 277), test_connection with
\* _get_connection (291)
OperationCall(o) ==
    /\ conn_pc = "idle"
    /\ connections < MaxOpen
    /\ operation' = o
    /\ conn_pc' = IF o = "test_connection" THEN "connect" ELSE "ensure_connect"
    /\ attempts' = 0
    /\ conn_result' = "none"
    /\ UNCHANGED connections
    /\ UNCHANGED <<storeVars, now, discordVars, rankVars, passVars, statusVars, lifeVars>>

\* _get_connection with the connect call in a loop of three attempts
GetConnectionRetrying(result) ==
    /\ conn_pc \in {"ensure_connect", "connect"}
    /\ attempts' = attempts + 1
    /\ IF result = "ok"
       THEN /\ connections' = connections + 1
            /\ conn_pc' = IF conn_pc = "ensure_connect"
                          THEN "ensure_execute" ELSE "statement"
            /\ UNCHANGED conn_result
       ELSE IF attempts + 1 < 3
       THEN UNCHANGED <<connections, conn_pc, conn_result>>
       ELSE /\ UNCHANGED connections
            /\ IF operation = "test_connection"
               THEN conn_pc' = "returned" /\ conn_result' = "default"
               ELSE conn_pc' = "raised" /\ conn_result' = "connection_error"
    /\ UNCHANGED operation
    /\ UNCHANGED <<storeVars, now, discordVars, rankVars, passVars, statusVars, lifeVars>>

\* role_manager.py:51-75: _get_connection, one asyncpg.connect call whose
\* exception is logged and raised again.  The callers await it outside their
\* try (95, 158, 230, 246, 265, 278), so the operation raises; test_connection
\* awaits it inside (290-291) and returns False (296-298)
GetConnection(result) ==
    /\ conn_pc \in {"ensure_connect", "connect"}
    /\ attempts' = attempts + 1
    /\ IF result = "ok"
       THEN /\ connections' = connections + 1
            /\ conn_pc' = IF conn_pc = "ensure_connect"
                          THEN "ensure_execute" ELSE "statement"
            /\ UNCHANGED conn_result
       ELSE /\ UNCHANGED connections
            /\ IF operation = "test_connection"
               THEN conn_pc' = "returned" /\ conn_result' = "default"
               ELSE conn_pc' = "raised" /\ conn_result' = "connection_error"
    /\ UNCHANGED operation
    /\ UNCHANGED <<storeVars, now, discordVars, rankVars, passVars, statusVars, lifeVars>>

\* role_manager.py:96-125: the statements of _ensure_table_exists; finally
\* closes the connection, an exception is raised again
EnsureExecute(result) ==
    /\ conn_pc = "ensure_execute"
    /\ connections' = connections - 1
    /\ IF result = "ok"
       THEN conn_pc' = "connect" /\ attempts' = 0 /\ UNCHANGED conn_result
       ELSE /\ conn_pc' = "raised"
            /\ conn_result' = "statement_error"
            /\ UNCHANGED attempts
    /\ UNCHANGED operation
    /\ UNCHANGED <<storeVars, now, discordVars, rankVars, passVars, statusVars, lifeVars>>

\* The statements of the operation itself.  try/except/finally with
\* conn.close() in finally (131-153, 160-225, 231-241, 247-260, 266-273,
\* 279-286); test_connection closes after fetchval inside its try and has no
\* finally (290-298)
Statement(result) ==
    /\ conn_pc = "statement"
    /\ IF operation = "test_connection"
       THEN IF result = "ok"
            THEN /\ connections' = connections - 1
                 /\ conn_pc' = "returned"
                 /\ conn_result' = "ok"
            ELSE /\ UNCHANGED connections
                 /\ conn_pc' = "returned"
                 /\ conn_result' = "default"
       ELSE /\ connections' = connections - 1
            /\ IF result = "ok"
               THEN conn_pc' = "returned" /\ conn_result' = "ok"
               ELSE IF operation \in Reraising
               THEN conn_pc' = "raised" /\ conn_result' = "statement_error"
               ELSE conn_pc' = "returned" /\ conn_result' = "default"
    /\ UNCHANGED <<operation, attempts>>
    /\ UNCHANGED <<storeVars, now, discordVars, rankVars, passVars, statusVars, lifeVars>>

\* The caller has the value or the exception (bot.py:81-84, 216-222,
\* 269-274, 297-300, 349-357, 373-375, 389-394): the bot goes on
OperationReturn ==
    /\ conn_pc \in {"returned", "raised"}
    /\ operation' = "none"
    /\ conn_pc' = "idle"
    /\ attempts' = 0
    /\ conn_result' = "none"
    /\ UNCHANGED connections
    /\ UNCHANGED <<storeVars, now, discordVars, rankVars, passVars, statusVars, lifeVars>>

\* ------------------------------------------------------ the start of the bot

\* Tables a previous run of the bot may have left: grants of the temporary
\* role made at time 0 to members of guild 10
LeftRows ==
    {[id |-> u, user_id |-> u, guild_id |-> 10, role_id |-> temporary_role_id,
      expiry_time |-> duration] : u \in Users}

\* bot.py:22-35: the bot is constructed; nothing has run yet
InitStartup ==
    /\ rows \in SUBSET LeftRows
    /\ next_id = Cardinality(Users) + 1
    /\ now = 0
    /\ bot_guilds = Guilds
    /\ guild_members = Guilds \X Users
    /\ guild_roles = {<<10, r>> : r \in Guild10Roles}
    /\ member_roles = {<<10, u, required_role_id>> : u \in Users}
                        \cup {<<10, r.user_id, r.role_id>> : r \in rows}
    /\ rank_pc = [c \in Callers |-> "idle"]
    /\ rank_args = [c \in Callers |-> NoArgs]
    /\ expiry_time = [c \in Callers |-> 0]
    /\ rank_reply = [c \in Callers |-> "none"]
    /\ pass_pc = [p \in Passes |-> "idle"]
    /\ expired_roles = [p \in Passes |-> <<>>]
    /\ idx = [p \in Passes |-> 0]
    /\ roles_to_delete = [p \in Passes |-> <<>>]
    /\ roles_processed = [p \in Passes |-> 0]
    /\ outcomes = [p \in Passes |-> <<>>]
    /\ pass_result = [p \in Passes |-> "none"]
    /\ cleanup_reply = [kind |-> "none", count |-> 0]
    /\ status_pc = "idle"
    /\ status_args = NoQuery
    /\ temp_roles = <<>>
    /\ status_reply = "none"
    /\ operation = "none"
    /\ conn_pc = "idle"
    /\ connections = 0
    /\ attempts = 0
    /\ conn_result = "none"
    /\ ready = FALSE
    /\ loop_pc = "not_started"

\* bot.py:37-42: setup_hook starts role_cleanup_task; the library calls
\* setup_hook after login, before it connects to the gateway
SetupHook ==
    /\ loop_pc = "not_started"
    /\ loop_pc' = "before_loop"
    /\ UNCHANGED ready
    /\ UNCHANGED <<storeVars, now, discordVars, rankVars, passVars, statusVars, connVars>>

\* bot.py:56-63: the gateway has sent the guilds and the bot is ready
Ready ==
    /\ loop_pc # "not_started"
    /\ ~ready
    /\ ready' = TRUE
    /\ UNCHANGED loop_pc
    /\ UNCHANGED <<storeVars, now, discordVars, rankVars, passVars, statusVars, connVars>>

\* The loop without its before_loop hook
BeforeRoleCleanupNoWait ==
    /\ loop_pc = "before_loop"
    /\ loop_pc' = "looping"
    /\ UNCHANGED ready
    /\ UNCHANGED <<storeVars, now, discordVars, rankVars, passVars, statusVars, connVars>>

\* bot.py:86-89: before_loop awaits wait_until_ready(); the first iteration
\* of the loop comes after it
BeforeRoleCleanup ==
    /\ loop_pc = "before_loop"
    /\ ready
    /\ loop_pc' = "looping"
    /\ UNCHANGED ready
    /\ UNCHANGED <<storeVars, now, discordVars, rankVars, passVars, statusVars, connVars>>

\* ------------------------------------------------------- the specification

Environment ==
    \/ Tick
    \/ GuildRemove(10)
    \/ MemberLeave(10, 2)
    \/ RoleDelete(10, temporary_role_id)
    \/ RoleTakenAway(10, 1, temporary_role_id)

Rank(limit) ==
    \/ \E c \in Callers, u \in Users, g \in Guilds, in_guild \in BOOLEAN,
          role1 \in Role1Inputs, role2 \in Role2Inputs, role3 \in Role3Inputs :
          RankInvoke(limit, c, u, g, in_guild, role1, role2, role3)
    \/ \E c \in Callers : RankAddRoles(c)
    \/ \E c \in Callers : RankSchedule(c)
    \/ \E c \in Callers : RankReturn(c)

Pass ==
    \/ \E p \in Passes : PassFetch(p)
    \/ \E p \in Passes : PassResolve(p)
    \/ \E p \in Passes : PassRevoke(p)
    \/ \E p \in Passes : PassDelete(p)

Cleanup(limit) ==
    \/ TaskTick(limit)
    \/ TaskReturn
    \/ \E u \in Users, g \in Guilds, in_guild \in BOOLEAN :
          CleanupInvoke(limit, u, g, in_guild)
    \/ CleanupAfterPass
    \/ CleanupCount
    \/ CleanupReturn

Status(limit) ==
    \/ \E u \in {1}, g \in Guilds, in_guild \in BOOLEAN :
          StatusInvoke(limit, u, g, in_guild)
    \/ StatusQuery
    \/ StatusReturn

\* The steps of the program with at most limit handlers in flight
NextUpTo(limit) ==
    Environment \/ Rank(limit) \/ Pass \/ Cleanup(limit) \/ Status(limit)

Next == NextUpTo(MaxConcurrent)

Spec == Init /\ [][Next]_vars

\* The executions in which no two handlers overlap: a command or a pass runs
\* from its invocation to its return before the next one starts
NextSolo == NextUpTo(1)

SpecSolo == Init /\ [][NextSolo]_vars

\* The handlers one at a time, and the operations of RoleManager that no
\* handler calls, by a client that calls them at any time
Api ==
    \E u \in Users, g \in Guilds : RemoveScheduledRole(u, g, get_temporary_role_id)

NextApi == NextSolo \/ Api

SpecApi == Init /\ [][NextApi]_vars

\* The store reachable and the collaborator answering every call: the rank
\* commands and the periodic pass alone, every statement running and every
\* revoke call succeeding, with the clock going one duration further so that
\* a grant made at the last instant of the other specifications expires
RankLive ==
    \/ \E c \in Callers, u \in Users, g \in Guilds, in_guild \in BOOLEAN,
          role1 \in Role1Inputs, role2 \in Role2Inputs, role3 \in Role3Inputs :
          RankInvoke(MaxConcurrent, c, u, g, in_guild, role1, role2, role3)
    \/ \E c \in Callers : RankAddRoles(c)
    \/ \E c \in Callers : RankScheduleWith(c, "ok")
    \/ \E c \in Callers : RankReturn(c)

PassLive ==
    \/ PassFetchWith("task", "ok")
    \/ PassResolve("task")
    \/ PassRevokeWith("task", "removed")
    \/ PassDeleteWith("task", "ok")

NextLive ==
    \/ TickUpTo(MaxTicks + 1)
    \/ RankLive
    \/ TaskTick(MaxConcurrent)
    \/ PassLive
    \/ TaskReturn

\* tasks.loop fires every five minutes whatever the commands do (bot.py:78),
\* and the event loop resumes every coroutine whose await has completed
FairLive ==
    /\ SF_vars(TaskTick(MaxConcurrent))
    /\ WF_vars(PassLive)
    /\ WF_vars(TaskReturn)
    /\ \A c \in Callers :
          /\ WF_vars(RankAddRoles(c))
          /\ WF_vars(RankScheduleWith(c, "ok"))
          /\ WF_vars(RankReturn(c))

SpecLive == Init /\ [][NextLive]_vars /\ FairLive

\* The rank command and the periodic pass one at a time, with a store that
\* answers, and the interruption of the process during a pass
NextCancel ==
    \/ Tick
    \/ \E c \in Callers, u \in Users, g \in Guilds, in_guild \in BOOLEAN,
          role1 \in Role1Inputs, role2 \in Role2Inputs, role3 \in Role3Inputs :
          RankInvoke(1, c, u, g, in_guild, role1, role2, role3)
    \/ \E c \in Callers : RankAddRoles(c)
    \/ \E c \in Callers : RankScheduleWith(c, "ok")
    \/ \E c \in Callers : RankReturn(c)
    \/ TaskTick(1)
    \/ PassFetchWith("task", "ok")
    \/ PassResolve("task")
    \/ PassRevoke("task")
    \/ PassDeleteWith("task", "ok")
    \/ TaskReturn
    \/ \E removed \in BOOLEAN : PassCancel(removed)
    \/ TaskRestart

SpecCancel == Init /\ [][NextCancel]_vars

\* The operations of RoleManager one call at a time, followed connection by
\* connection
NextConn ==
    \/ \E o \in Operations : OperationCall(o)
    \/ \E result \in {"ok", "refused"} : GetConnection(result)
    \/ \E result \in {"ok", "failed"} : EnsureExecute(result)
    \/ \E result \in {"ok", "failed"} : Statement(result)
    \/ OperationReturn

SpecConn == Init /\ [][NextConn]_vars

\* The periodic pass and the pass of /cleanup overlapping, with a store and a
\* platform that answer, the rank commands in between, and the clock going
\* one duration further so that two grants expire at different times
NextTwoPasses ==
    \/ TickUpTo(MaxTicks + 1)
    \/ \E c \in Callers, u \in Users, g \in Guilds, in_guild \in BOOLEAN,
          role1 \in Role1Inputs, role2 \in Role2Inputs, role3 \in Role3Inputs :
          RankInvoke(1, c, u, g, in_guild, role1, role2, role3)
    \/ \E c \in Callers : RankAddRoles(c)
    \/ \E c \in Callers : RankScheduleWith(c, "ok")
    \/ \E c \in Callers : RankReturn(c)
    \/ TaskTick(MaxConcurrent)
    \/ \E u \in Users, g \in Guilds, in_guild \in BOOLEAN :
          CleanupInvoke(MaxConcurrent, u, g, in_guild)
    \/ \E p \in Passes : PassFetchWith(p, "ok")
    \/ \E p \in Passes : PassResolve(p)
    \/ \E p \in Passes : PassRevokeWith(p, "removed")
    \/ \E p \in Passes : PassDeleteWith(p, "ok")
    \/ TaskReturn
    \/ CleanupAfterPass
    \/ CleanupCount
    \/ CleanupReturn

SpecTwoPasses == Init /\ [][NextTwoPasses]_vars

\* The handlers one at a time when no administrator of a guild sends
\* /cleanup: the command comes from members without the permission, or from
\* outside a guild
NextNotAdmin ==
    \/ Environment
    \/ Rank(1)
    \/ TaskTick(1)
    \/ PassFetch("task")
    \/ PassResolve("task")
    \/ PassRevoke("task")
    \/ PassDelete("task")
    \/ TaskReturn
    \/ \E u \in Users \ Admins, g \in Guilds, in_guild \in BOOLEAN :
          CleanupInvoke(1, u, g, in_guild)
    \/ \E u \in Admins, g \in Guilds : CleanupInvoke(1, u, g, FALSE)
    \/ CleanupReturn

SpecNotAdmin == Init /\ [][NextNotAdmin]_vars

\* The bot from its construction: setup_hook, the ready event, the loop and
\* its passes over the table a previous run left
NextStartup ==
    \/ SetupHook
    \/ Ready
    \/ BeforeRoleCleanup
    \/ Tick
    \/ TaskTick(1)
    \/ PassFetch("task")
    \/ PassResolve("task")
    \/ PassRevoke("task")
    \/ PassDelete("task")
    \/ TaskReturn

SpecStartup == InitStartup /\ [][NextStartup]_vars

\* ------------------------------------------------------------- properties

Ids(rs) == {r.id : r \in rs}

\* The row of the temporary role caller c's command schedules
RowsOfCaller(rs, c) ==
    RowsOf(rs, rank_args[c].user, rank_args[c].guild, get_temporary_role_id)

SameTriple(c, d) ==
    /\ rank_args[c].user = rank_args[d].user
    /\ rank_args[c].guild = rank_args[d].guild

Succeeded(c) == rank_pc[c] = "done" /\ rank_reply[c] = "success"

\* The step in which caller c's schedule_role_removal writes its row
Writes(c) == rank_pc[c] = "schedule" /\ rank_reply'[c] = "success"

\* The step in which pass p's SELECT returns
Selects(p) ==
    pass_pc[p] = "fetch" /\ pass_pc'[p] # "fetch" /\ pass_result'[p] # "raised"

\* The step in which pass p's DELETE (or its absence) ends the pass normally
Deletes(p) == pass_pc[p] = "delete" /\ pass_result'[p] = "returned"

\* The step that ends pass p's loop, whatever becomes of its DELETE
EndsLoop(p) == pass_pc[p] = "delete" /\ pass_pc'[p] = "done"

MemberRole(role_data) ==
    <<role_data.guild_id, role_data.user_id, role_data.role_id>>

\* The guild, the member or the role of the grant is not there
Missing(role_data) ==
    \/ role_data.guild_id \notin bot_guilds
    \/ <<role_data.guild_id, role_data.user_id>> \notin guild_members
    \/ <<role_data.guild_id, role_data.role_id>> \notin guild_roles

\* C1: in every reachable state, under every interleaving of
\* schedule_role_removal calls and cleanup_expired_roles passes, the table
\* holds at most one row for a (user_id, guild_id, role_id) triple.
C1_OneRowPerTriple == \A x, y \in rows : Triple(x) = Triple(y) => x = y

\* Two overlapping commands have both scheduled the same triple, and the
\* table holds one row for it
C1_TwoCallsOneRow ==
    /\ Succeeded("a") /\ Succeeded("b") /\ SameTriple("a", "b")
    /\ Cardinality(RowsOfCaller(rows, "a")) = 1
    /\ next_id = 3

\* C2: a schedule_role_removal call for a triple that already has a row
\* leaves exactly one row for the triple, with the expiry_time of this call,
\* under the id the row had; the other rows stay as they are.
C2_SecondCallReplaces ==
    [][\A c \in Callers :
          (Writes(c) /\ RowsOfCaller(rows, c) # {})
          => /\ \E r \in rows' :
                   /\ RowsOfCaller(rows', c) = {r}
                   /\ r.expiry_time = expiry_time[c]
                   /\ r.id \in Ids(RowsOfCaller(rows, c))
             /\ rows' \ RowsOfCaller(rows', c) = rows \ RowsOfCaller(rows, c)]_vars

\* A second call, made one duration after the first, has replaced the expiry
\* of the row the first call inserted
C2_ReplacedByLaterCall ==
    \E c \in Callers :
        /\ Succeeded(c)
        /\ next_id = 3
        /\ expiry_time[c] = 2 * duration
        /\ rows = {[id |-> 1, user_id |-> rank_args[c].user,
                    guild_id |-> rank_args[c].guild,
                    role_id |-> get_temporary_role_id,
                    expiry_time |-> expiry_time[c]]}

\* C3 as stated: when two overlapping calls for the same triple with expiries
\* T1 < T2 have both completed, the row of the triple has expiry_time T2,
\* whichever write was applied last.
C3_LaterExpiryWins ==
    \A c, d \in Callers :
        (Succeeded(c) /\ Succeeded(d) /\ SameTriple(c, d)
         /\ expiry_time[c] < expiry_time[d])
        => \E r \in rows :
              RowsOfCaller(rows, d) = {r} /\ r.expiry_time = expiry_time[d]

\* C3 (amended): of two overlapping calls for the same triple, the one whose
\* write is applied last decides the expiry_time of the one row of the triple,
\* be its expiry the earlier or the later one.
C3_LastWriteWins ==
    [][\A c, d \in Callers :
          (c # d /\ Writes(c) /\ Succeeded(d) /\ SameTriple(c, d))
          => \E r \in rows' :
                RowsOfCaller(rows', c) = {r} /\ r.expiry_time = expiry_time[c]]_vars

\* Both calls have completed and the row carries the earlier expiry
C3_EarlierExpiryWrittenLast ==
    \E c, d \in Callers :
        /\ Succeeded(c) /\ Succeeded(d) /\ SameTriple(c, d)
        /\ expiry_time[c] < expiry_time[d]
        /\ \E r \in rows :
              RowsOfCaller(rows, c) = {r} /\ r.expiry_time = expiry_time[c]

C5_SelectsExactlyExpired ==
    [][\A p \in Passes :
          Selects(p)
          => /\ SeqToSet(expired_roles'[p]) = {r \in rows : r.expiry_time <= now}
             /\ Len(expired_roles'[p]) =
                   Cardinality({r \in rows : r.expiry_time <= now})]_vars

\* A pass has selected the expired row and left the unexpired one
C5_ExpiredAndUnexpired ==
    \E p \in Passes :
        /\ pass_pc[p] = "loop" /\ idx[p] = 1
        /\ Len(expired_roles[p]) = 1
        /\ expired_roles[p][1].expiry_time <= now
        /\ \E r \in rows : r.expiry_time > now

\* C6 as stated: a grant whose revoke call failed with an HTTP error or any
\* other failure that is not Forbidden is not deleted by the pass.
C6_TransientFailureKeepsRow ==
    [][\A p \in Passes :
          EndsLoop(p)
          => \A i \in 1..Len(outcomes[p]) :
                (outcomes[p][i] = "error" /\ expired_roles[p][i] \in rows)
                => expired_roles[p][i] \in rows']_vars

\* C7: a revoke call refused with Forbidden leaves the member's roles as they
\* are and is not counted in roles_processed, and the DELETE of the pass
\* removes the row of the grant.
C7_ForbiddenRowDeleted ==
    [][\A p \in Passes :
          /\ (pass_pc[p] = "revoking"
              /\ outcomes'[p] = Append(outcomes[p], "Forbidden"))
             => /\ member_roles' = member_roles
                /\ roles_processed'[p] = roles_processed[p]
          /\ Deletes(p)
             => \A i \in 1..Len(outcomes[p]) :
                   outcomes[p][i] = "Forbidden"
                   => expired_roles[p][i].id \notin Ids(rows')]_vars

\* A pass has ended after a refusal: the row is gone, the member holds the
\* role, nothing was counted
C7_RefusedAndDeleted ==
    \E p \in Passes :
        /\ pass_pc[p] = "done" /\ pass_result[p] = "returned"
        /\ outcomes[p] = <<"Forbidden">>
        /\ expired_roles[p][1].id \notin Ids(rows)
        /\ MemberRole(expired_roles[p][1]) \in member_roles
        /\ roles_processed[p] = 0

\* C8 as stated: a pass in which every expired grant met a missing guild or a
\* failing revoke call leaves the table as it was.
C8_UnavailableLeavesStore ==
    [][\A p \in Passes :
          (EndsLoop(p)
           /\ \A i \in 1..Len(outcomes[p]) : outcomes[p][i] \in {"no_guild", "error"})
          => rows' = rows]_vars

C10_MissingResolvedWithoutRevoke ==
    [][\A p \in Passes :
          /\ (pass_pc[p] = "loop"
              /\ <<pass_pc[p], idx[p]>>' # <<pass_pc[p], idx[p]>>
              /\ Missing(expired_roles[p][idx[p]]))
             => /\ pass_pc'[p] # "revoking"
                /\ roles_to_delete'[p] =
                      Append(roles_to_delete[p], expired_roles[p][idx[p]].id)
                /\ roles_processed'[p] = roles_processed[p]
                /\ member_roles' = member_roles
          /\ Deletes(p)
             => \A i \in 1..Len(outcomes[p]) :
                   outcomes[p][i] \in {"no_guild", "no_member", "no_role"}
                   => expired_roles[p][i].id \notin Ids(rows')]_vars

\* A pass has ended on a grant of a member who left: the row is gone and
\* nothing was counted
C10_MemberGoneRowDeleted ==
    \E p \in Passes :
        /\ pass_pc[p] = "done" /\ pass_result[p] = "returned"
        /\ \E i \in 1..Len(outcomes[p]) :
              /\ outcomes[p][i] = "no_member"
              /\ expired_roles[p][i].id \notin Ids(rows)
        /\ roles_processed[p] = 0

\* Row r is in the table before the step and no row has its id after it
Leaves(r) == r \in rows /\ r.id \notin Ids(rows')

\* The step is the DELETE of a pass that listed the row as expired and has
\* been through its iteration
DeletedByPass(r) ==
    \E p \in Passes :
        /\ Deletes(p)
        /\ \E i \in 1..Len(outcomes[p]) :
              /\ expired_roles[p][i].id = r.id
              /\ expired_roles[p][i].expiry_time <= now
              /\ roles_to_delete[p][i] = r.id

\* C11 as stated: a row leaves the table only in the DELETE of a pass that
\* listed it as expired and has attempted its revocation or found it
\* resolvable; no other operation deletes a row.
C11_OnlyPassesDelete ==
    [][\A r \in rows : Leaves(r) => DeletedByPass(r)]_vars

\* C11 (amended): a row leaves the table only in the DELETE of such a pass or
\* in a remove_scheduled_role call for its triple, which deletes the row
\* whatever its expiry_time.
C11_PassOrRemoveScheduledRole ==
    [][\A r \in rows :
          Leaves(r)
          => \/ DeletedByPass(r)
             \/ /\ rows' = rows \ {x \in rows : Triple(x) = Triple(r)}
                /\ UNCHANGED <<next_id, rankVars, passVars, statusVars, connVars, lifeVars>>]_vars

\* A row written at the first instant, when nothing has expired, is gone
C11_UnexpiredRowRemoved == rows = {} /\ next_id = 2 /\ now = 0

\* The pcs at which cleanup_expired_roles is running
Running == {"fetch", "loop", "revoking", "delete"}

\* C12 as stated: at most one pass is running at any time.
C12_OnePassAtATime ==
    Cardinality({p \in Passes : pass_pc[p] \in Running}) <= 1

\* C13: the rank command sends its success response only in the step in which
\* schedule_role_removal has written the row of the grant with the expiry the
\* response announces; when the write fails the command answers with its
\* error message and the table is as it was.
C13_NoSuccessWithoutRow ==
    [][\A c \in Callers :
          /\ (rank_reply'[c] = "success" /\ rank_reply[c] # "success")
             => \E r \in rows' :
                   /\ RowsOfCaller(rows', c) = {r}
                   /\ r.expiry_time = expiry_time[c]
                   /\ next_id' = next_id + 1
          /\ (rank_pc[c] = "schedule" /\ rank_pc'[c] = "done"
              /\ rank_reply'[c] # "success")
             => /\ rank_reply'[c] = "error"
                /\ UNCHANGED <<rows, next_id>>]_vars

\* The roles were added, the write failed, and the command has answered with
\* its error message; no row carries the grant
C13_WriteFailed ==
    \E c \in Callers :
        /\ rank_pc[c] = "done" /\ rank_reply[c] = "error"
        /\ expiry_time[c] = now + duration
        /\ RowsOfCaller(rows, c) = {}
        /\ <<rank_args[c].guild, rank_args[c].user, get_temporary_role_id>>
              \in member_roles

\* The expiries the clock of SpecLive reaches
Expiries == {k * duration : k \in 1..(MaxTicks + 1)}

\* Caller c's command has written a grant of user u with expiry e
Wrote(c, u, e) ==
    Succeeded(c) /\ rank_args[c].user = u /\ expiry_time[c] = e

\* No row of user u is past its expiry, and u holds the temporary role only
\* under a row that has not expired
Settled(u) ==
    /\ \A r \in rows : r.user_id = u => r.expiry_time > now
    /\ \A g \in Guilds :
          <<g, u, get_temporary_role_id>> \in member_roles
          => \E r \in rows : r.user_id = u /\ r.guild_id = g

\* C14 as stated: with the periodic pass firing, the store reachable and every
\* revoke call answered, once the expiry of a grant the rank command has
\* written has passed, the member eventually holds the temporary role no
\* longer (unless under a newer grant) and no expired row of the grant is left.
C14_ExpiredGrantRevoked ==
    \A c \in Callers, u \in Users, e \in Expiries :
        [](Wrote(c, u, e) => [](now >= e => <>Settled(u)))

\* Number of grants of pass p whose remove_roles call succeeded
Revoked(p) ==
    Cardinality({i \in 1..Len(outcomes[p]) : outcomes[p][i] = "removed"})

C17_LoopSurvivesFailure ==
    [][/\ (pass_pc["task"] = "done" /\ pass_pc'["task"] # "done")
            => pass_pc'["task"] = "idle"
       /\ (pass_pc["task"] = "revoking" /\ pass_pc'["task"] # "revoking")
            => pass_pc'["task"] \in {"loop", "delete"}]_vars

\* C17 witness: a periodic pass has raised on its DELETE after a revoke call
\* that failed
C17_PeriodicPassRaised ==
    /\ pass_pc["task"] = "done"
    /\ pass_result["task"] = "raised"
    /\ \E i \in 1..Len(outcomes["task"]) : outcomes["task"][i] = "error"

\* Row r was listed by pass p and has been renewed since: its expiry is in
\* the future again
Renewed(p, r) ==
    /\ r.expiry_time > now
    /\ \E i \in 1..Len(roles_to_delete[p]) :
          /\ roles_to_delete[p][i] = r.id
          /\ expired_roles[p][i].id = r.id
          /\ expired_roles[p][i].expiry_time <= now

\* C19: the DELETE of a pass removes every row whose id the pass collected,
\* the rows renewed with a future expiry since the pass listed them included
C19_DeleteTakesRenewedRow ==
    [][\A p \in Passes : Deletes(p) =>
          \A r \in rows : r.id \in SeqToSet(roles_to_delete[p]) => r \notin rows']_vars

\* C19 witness: a pass is about to issue its DELETE for a row that a rank
\* command renewed after the pass had listed it, and the member holds the role
C19_RenewedRowAboutToGo ==
    \E p \in Passes, r \in rows :
        /\ pass_pc[p] = "delete"
        /\ Renewed(p, r)
        /\ MemberRole([guild_id |-> r.guild_id, user_id |-> r.user_id,
                       role_id |-> r.role_id]) \in member_roles
        /\ \E c \in Callers : Succeeded(c) /\ r \in RowsOfCaller(rows, c)

\* The rows pass p listed
Listed(p) == {expired_roles[p][i] : i \in 1..Len(expired_roles[p])}

\* C20: a pass cancelled inside its loop has deleted nothing: every row it
\* listed, resolved or not, is still in the table; and a pass that then runs
\* to its end removes every row it listed and does not raise, the rows whose
\* role was already revoked before the cancellation included
C20_CancelledPassDeletesNothing ==
    /\ pass_pc["task"] = "cancelled" => Listed("task") \subseteq rows
    /\ pass_pc["task"] = "done" =>
          /\ pass_result["task"] = "returned"
          /\ Ids(Listed("task")) \cap Ids(rows) = {}

\* C20 witness: the pass after a cancellation has found a role already
\* revoked, has found another one still held, and has deleted both rows
C20_ReprocessedAfterCancel ==
    /\ pass_pc["task"] = "done"
    /\ pass_result["task"] = "returned"
    /\ \E i, j \in 1..Len(outcomes["task"]) :
          outcomes["task"][i] = "not_held" /\ outcomes["task"][j] = "removed"
    /\ rows = {}

C18_NoConnectionLeftOpen ==
    conn_pc \in {"idle", "returned", "raised"} => connections = 0

\* C21 (as stated): the grants of a pass are handled in ascending order of
\* expiry_time
C21_AscendingExpiry ==
    \A p \in Passes : \A i, j \in 1..Len(expired_roles[p]) :
        i < j => expired_roles[p][i].expiry_time <= expired_roles[p][j].expiry_time

\* C21 (amended): the grants of a pass are handled in the order in which the
\* SELECT returned them, one after the other: the iterations done so far are
\* those of the first rows of the list, in the order of the list
C21_ListedOrder ==
    \A p \in Passes :
        /\ Len(roles_to_delete[p]) = Len(outcomes[p])
        /\ Len(outcomes[p]) <= Len(expired_roles[p])
        /\ \A i \in 1..Len(roles_to_delete[p]) :
              roles_to_delete[p][i] = expired_roles[p][i].id
        /\ pass_pc[p] \in {"loop", "revoking"} => idx[p] = Len(outcomes[p]) + 1

\* C21 witness: a pass has handled two grants, the one that expired later
\* first
C21_LaterExpiryFirst ==
    \E p \in Passes :
        /\ Len(outcomes[p]) = 2
        /\ expired_roles[p][1].expiry_time > expired_roles[p][2].expiry_time
        /\ outcomes[p][1] = "removed"

\* The grant pass p is about to handle
Current(p) == expired_roles[p][idx[p]]

\* C22: a pass calls remove_roles for a grant only if the guild, the member
\* and the role are there and the member holds the role; when the member does
\* not hold the role the pass makes no call, collects the id of the row for
\* its DELETE and does not count the grant as revoked
C22_RevokeOnlyIfHeld ==
    [][\A p \in Passes :
          /\ (pass_pc[p] = "loop" /\ pass_pc'[p] = "revoking") =>
                /\ Current(p).guild_id \in bot_guilds
                /\ <<Current(p).guild_id, Current(p).user_id>> \in guild_members
                /\ <<Current(p).guild_id, Current(p).role_id>> \in guild_roles
                /\ MemberRole(Current(p)) \in member_roles
          /\ (pass_pc[p] = "loop" /\ idx'[p] # idx[p]
                 /\ MemberRole(Current(p)) \notin member_roles) =>
                /\ pass_pc'[p] # "revoking"
                /\ roles_to_delete'[p] = Append(roles_to_delete[p], Current(p).id)
                /\ roles_processed'[p] = roles_processed[p]
                /\ member_roles' = member_roles]_vars

\* C22 witness: a pass has ended with a grant whose role the member no longer
\* held: no call, nothing counted, the row deleted
C22_NotHeldRowDeleted ==
    /\ pass_pc["task"] = "done"
    /\ pass_result["task"] = "returned"
    /\ outcomes["task"] = <<"not_held">>
    /\ roles_processed["task"] = 0
    /\ rows = {}

\* C23: a row keeps the id it was inserted with for as long as it exists, a
\* later schedule_role_removal for its triple included, and no two rows of
\* the table have the same id
C23_IdStable ==
    [][/\ \A r \in rows, s \in rows' : Triple(r) = Triple(s) => s.id = r.id
       /\ \A r, s \in rows' : r.id = s.id => r = s]_vars

\* C23 witness: the first row of the table has been renewed, with the id it
\* was inserted with and the expiry of the second call
C23_RenewedWithSameId ==
    /\ next_id = 3
    /\ \E r \in rows :
          rows = {r} /\ r.id = 1 /\ r.expiry_time = 2 * duration

\* C24: the DELETE of a pass goes through when ids it collected are no longer
\* in the table: it raises nothing, removes the rows of its ids that are
\* still there and leaves every other row as it was
C24_DeleteToleratesAbsentIds ==
    [][\A p \in Passes :
          (pass_pc[p] = "delete" /\ pass_pc'[p] = "done") =>
              /\ pass_result'[p] = "returned"
              /\ rows' = {r \in rows : r.id \notin SeqToSet(roles_to_delete[p])}]_vars

\* C24 witness: a pass is about to issue its DELETE for two ids, one of a row
\* the other pass has already deleted and one of a row still in the table
C24_OneIdAlreadyDeleted ==
    \E p, q \in Passes :
        /\ p # q
        /\ pass_pc[p] = "delete"
        /\ pass_pc[q] = "done" /\ pass_result[q] = "returned"
        /\ \E i, j \in SeqToSet(roles_to_delete[p]) :
              /\ i \in SeqToSet(roles_to_delete[q]) /\ i \notin Ids(rows)
              /\ j \in Ids(rows)

\* Caller c's command is over and its add_roles call went through
AddedRoles(c) == rank_pc[c] = "done" /\ expiry_time[c] > 0

\* C25 (as stated): once a rank command is over and has added the temporary
\* role, the table has the row of (member, guild, temporary role) with the
\* expiry of 48 hours after the grant
C25_GrantHasRow ==
    \A c \in Callers :
        AddedRoles(c) =>
            \E r \in RowsOfCaller(rows, c) : r.expiry_time = expiry_time[c]

\* C26: every row the rank command writes is a row of the temporary role,
\* and the revoke call of a pass takes no other role from a member: the three
\* category roles are never revoked
C26_OnlyTemporaryRoleExpires ==
    [][/\ \A r \in rows' : r.role_id = temporary_role_id
       /\ \A p \in Passes :
             (pass_pc[p] = "revoking" /\ pass_pc'[p] # "revoking") =>
                 \A t \in member_roles \ member_roles' :
                     t[3] = temporary_role_id]_vars

\* C26 witness: a pass has revoked the temporary role of a member who keeps
\* the three category roles of the rank command
C26_CategoryRolesKept ==
    /\ pass_pc["task"] = "done"
    /\ outcomes["task"] = <<"removed">>
    /\ \E u \in Users :
          /\ <<10, u, temporary_role_id>> \notin member_roles
          /\ {<<10, u, get_role_id(n)>> : n \in {"Stage 2", "High", "Strong"}}
                \subseteq member_roles

\* The answers of a rank command that is rejected
Rejections ==
    {"server_only", "no_permission", "invalid_role1", "invalid_role2",
     "invalid_role3", "not_configured", "roles_not_found"}

\* The option names of a command
Names(a) == {a.role1, a.role2, a.role3}

\* C27: a rank command goes on to add roles only when its caller has the
\* required role, its three options are in their lists, the four role ids
\* are configured and the four roles exist in the guild; any other command
\* ends with a rejection, and from its invocation to its return it adds no
\* role and writes no row
C27_RejectedChangesNothing ==
    [][\A c \in Callers :
          /\ (rank_pc[c] = "idle" /\ rank_pc'[c] = "add_roles") =>
                LET a == rank_args'[c] IN
                /\ <<a.guild, a.user, required_role_id>> \in member_roles
                /\ a.role1 \in SeqToSet(ROLE1_OPTIONS)
                /\ a.role2 \in SeqToSet(ROLE2_OPTIONS)
                /\ a.role3 \in SeqToSet(ROLE3_OPTIONS)
                /\ \A n \in Names(a) :
                      /\ role_mappings[n] > 0
                      /\ <<a.guild, role_mappings[n]>> \in guild_roles
                /\ temporary_role_id > 0
                /\ <<a.guild, temporary_role_id>> \in guild_roles
          /\ (rank_pc[c] = "idle" /\ rank_pc'[c] # "idle") =>
                /\ rank_pc'[c] = "done" => rank_reply'[c] \in Rejections
                /\ rows' = rows /\ member_roles' = member_roles
          /\ (rank_pc[c] = "done" /\ rank_pc'[c] # "done") =>
                /\ rank_pc'[c] = "idle"
                /\ rows' = rows /\ member_roles' = member_roles]_vars

\* C27 witness: a command has been rejected because the temporary role is
\* not in the guild, and the table and the member's roles are as before
C27_RejectedRoleNotFound ==
    /\ rank_pc["a"] = "done"
    /\ rank_reply["a"] = "roles_not_found"
    /\ <<10, temporary_role_id>> \notin guild_roles
    /\ rows = {}

\* C28: when no /cleanup comes from a guild member with the administrator
\* permission, the command never gets to a pass: it is answered with the
\* refusal and returns, it reaches neither a query nor a revoke call, and
\* its steps leave the table and every member's roles as they were
C28_NotAdminStartsNoPass ==
    [][/\ pass_pc'["cmd"] \in {"idle", "replied"}
       /\ pass_pc'["cmd"] = "replied" => cleanup_reply'.kind = "not_admin"
       /\ pass_pc'["cmd"] # pass_pc["cmd"] =>
             /\ rows' = rows
             /\ member_roles' = member_roles
             /\ expired_roles'["cmd"] = <<>>
             /\ outcomes'["cmd"] = <<>>]_vars

\* C28 witness: /cleanup has been refused while a grant had expired and was
\* waiting for a pass
C28_RefusedWithExpiredGrant ==
    /\ pass_pc["cmd"] = "replied"
    /\ cleanup_reply.kind = "not_admin"
    /\ ExpiredRows(rows, now) # {}

\* C29: the periodic task starts a pass only once the bot is ready: no pass
\* of the task is in flight before the ready event, although setup_hook has
\* started the task before it
C29_NoPassBeforeReady ==
    /\ pass_pc["task"] # "idle" => ready
    /\ loop_pc = "looping" => ready
    /\ ready => loop_pc # "not_started"

\* C29 witness: the task, started before the ready event, has run a pass
\* after it and revoked an expired grant of the previous run
C29_PassAfterReady ==
    /\ ready
    /\ pass_pc["task"] = "done"
    /\ \E i \in 1..Len(outcomes["task"]) : outcomes["task"][i] = "removed"

\* The step in which /cleanup gets the number of get_scheduled_count
Counts ==
    /\ pass_pc["cmd"] = "count"
    /\ pass_pc'["cmd"] = "replied"
    /\ cleanup_reply'.kind = "complete"

\* C30: the number get_scheduled_count returns is the number of rows in the
\* table at the time of the query, so that /cleanup never reports 0 rows
\* while the table holds one
C30_CountIsNumberOfRows ==
    [][Counts => cleanup_reply'.count = Cardinality(rows)]_vars

====
